---- MODULE Spec2Model ----
(***************************************************************************)
(* Model of streamlit.py, the UPI financial analyzer: one run of the       *)
(* script over a loaded ledger.  The run reads the date range and the      *)
(* category selection, filters the ledger, aggregates it, asks the         *)
(* advisory model for advice and dispatches the selected view.             *)
(***************************************************************************)
EXTENDS Integers, Sequences, FiniteSets, TLC

VARIABLES pc, df, start_date, end_date, categories, selected_categories,
          df_filtered, category_summary, day_summary, hour_summary,
          top_merchants, wasteful_small, wasteful_status, response,
          advice_text, selection, monthly_trend, figs, page, charts_pdf,
          advice_pdf

vars == <<pc, df, start_date, end_date, categories, selected_categories,
          df_filtered, category_summary, day_summary, hour_summary,
          top_merchants, wasteful_small, wasteful_status, response,
          advice_text, selection, monthly_trend, figs, page, charts_pdf,
          advice_pdf>>

(***************************************************************************)
(* Bounds of the explored ledgers.                                         *)
(***************************************************************************)
MaxRows == 3

MaxRecurring == 9

NumMerchants == 6

(***************************************************************************)
(* Program constants.                                                      *)
(***************************************************************************)
SmallAmount == 500

RecurrenceLimit == 3

TopN == 5

Fallback == "No advice generated."

Unbound == "<unbound>"

(***************************************************************************)
(* pd.to_numeric(errors='coerce'): a cell is the text of the CSV field, a  *)
(* sequence of characters.  An optional sign followed by one or more       *)
(* digits parses to that integer; anything else becomes NaN.               *)
(***************************************************************************)
Digits == <<"0", "1", "2", "3", "4", "5", "6", "7", "8", "9">>

IsDigit(c) == \E i \in DOMAIN Digits : Digits[i] = c

DigitVal(c) == (CHOOSE i \in DOMAIN Digits : Digits[i] = c) - 1

RECURSIVE ParseDigits(_)
ParseDigits(cs) ==
    IF cs = <<>> THEN 0
    ELSE 10 * ParseDigits(SubSeq(cs, 1, Len(cs) - 1)) + DigitVal(cs[Len(cs)])

NaN == [nan |-> TRUE, val |-> 0]

Num(n) == [nan |-> FALSE, val |-> n]

AllDigits(cs) == cs # <<>> /\ \A i \in DOMAIN cs : IsDigit(cs[i])

ToNumeric(cell) ==
    IF AllDigits(cell) THEN Num(ParseDigits(cell))
    ELSE IF cell # <<>> /\ cell[1] = "-" /\ AllDigits(Tail(cell))
         THEN Num(0 - ParseDigits(Tail(cell)))
    ELSE NaN

(***************************************************************************)
(* Dates.  A parsed Date is a calendar date [y, m, d]; Timestamps compare  *)
(* chronologically.                                                        *)
(***************************************************************************)
DateLE(a, b) ==
    \/ a.y < b.y
    \/ a.y = b.y /\ a.m < b.m
    \/ a.y = b.y /\ a.m = b.m /\ a.d <= b.d

\* Days since 1970-01-01 of a calendar date (proleptic Gregorian).
DaysFromCivil(date) ==
    LET y   == IF date.m <= 2 THEN date.y - 1 ELSE date.y
        era == y \div 400
        yoe == y - era * 400
        mp  == IF date.m > 2 THEN date.m - 3 ELSE date.m + 9
        doy == (153 * mp + 2) \div 5 + date.d - 1
        doe == yoe * 365 + yoe \div 4 - yoe \div 100 + doy
    IN  era * 146097 + doe - 719468

DayNames == <<"Monday", "Tuesday", "Wednesday", "Thursday", "Friday",
              "Saturday", "Sunday">>

\* Series.dt.day_name(): 1970-01-01 was a Thursday.
DayName(date) == DayNames[((DaysFromCivil(date) + 3) % 7) + 1]

\* Series.dt.to_period('M'): the ordinal of the month since 1970-01.
ToPeriodM(date) == (date.y - 1970) * 12 + (date.m - 1)

\* pd.to_datetime(Time).dt.hour, Time being minutes since midnight.
HourOf(time) == time \div 60

(***************************************************************************)
(* Loading: lines 9-14 turn a CSV row into a row of df.                    *)
(***************************************************************************)
LoadRow(raw) ==
    [Date      |-> raw.Date,
     Time      |-> raw.Time,
     Amount    |-> ToNumeric(raw.Amount),
     Category  |-> raw.Category,
     Receiver  |-> raw.Receiver,
     Status    |-> raw.Status,
     DayOfWeek |-> DayName(raw.Date),
     Hour      |-> HourOf(raw.Time),
     Month     |-> ToPeriodM(raw.Date)]

LoadCsv(rawRows) == [i \in DOMAIN rawRows |-> LoadRow(rawRows[i])]

(***************************************************************************)
(* The ledgers explored: rows of updated_data.csv as text fields.          *)
(***************************************************************************)
D(y, m, d) == [y |-> y, m |-> m, d |-> d]

Jan30 == D(2024, 1, 30)

Jan31 == D(2024, 1, 31)

Feb01 == D(2024, 2, 1)

Raw(date, time, amount, category, receiver, status) ==
    [Date |-> date, Time |-> time, Amount |-> amount, Category |-> category,
     Receiver |-> receiver, Status |-> status]

Rows ==
    { Raw(Jan30, 555,  <<"1", "0", "0">>,      "Food",  "Coffee Shop", "COMPLETED"),
      Raw(Jan31, 580,  <<"6", "0", "0">>,      "Bills", "Landlord",    "PENDING"),
      Raw(Jan31, 785,  <<"a", "b", "c">>,      "Food",  "Coffee Shop", "FAILED"),
      Raw(Feb01, 1290, <<"-", "1", "0", "0">>, "Food",  "Grocer",      "COMPLETED"),
      Raw(Feb01, 540,  <<"1", "0", "0">>,      "Bills", "Landlord",    "FAILED") }

SeqsUpTo(S, n) == UNION { [1..k -> S] : k \in 1..n }

GeneralLedgers == SeqsUpTo(Rows, MaxRows)

\* Repeated payments to one merchant: small, at the threshold, unparsable,
\* and small in the following month.
Repeat(r, k) == [i \in 1..k |-> r]

CoffeeSmall == Raw(Jan31, 555, <<"1", "0", "0">>, "Food", "Coffee Shop", "COMPLETED")

CoffeeLarge == Raw(Jan31, 560, <<"5", "0", "0">>, "Food", "Coffee Shop", "COMPLETED")

CoffeeBlank == Raw(Jan31, 565, <<>>, "Food", "Coffee Shop", "PENDING")

CoffeeNext == Raw(Feb01, 555, <<"1", "0", "0">>, "Food", "Coffee Shop", "COMPLETED")

RecurringLedgers ==
    { Repeat(CoffeeSmall, a) \o Repeat(CoffeeLarge, b) \o Repeat(CoffeeBlank, c)
        \o Repeat(CoffeeNext, d) :
        <<a, b, c, d>> \in { t \in (0..MaxRecurring) \X (0..MaxRecurring)
                                  \X (0..MaxRecurring) \X (0..MaxRecurring) :
                             t[1] + t[2] + t[3] + t[4] \in 1..MaxRecurring } }

\* One payment to each of NumMerchants merchants, of a distinct or a
\* shared amount.
Merchants == <<"Zomato", "Amazon", "Swiggy", "Flipkart", "Uber", "Myntra",
               "Ola", "BigBasket">>

AmountCells == <<<<"1", "0", "0">>, <<"2", "0", "0">>, <<"3", "0", "0">>,
                 <<"4", "0", "0">>, <<"6", "0", "0">>, <<"7", "0", "0">>,
                 <<"8", "0", "0">>, <<"9", "0", "0">>>>

SharedCell == <<"3", "5", "0">>

MerchantLedgers ==
    { [i \in 1..NumMerchants |->
          Raw(Jan31, 720 + i, IF i \in own THEN AmountCells[i] ELSE SharedCell,
              "Food", Merchants[i], "COMPLETED")] :
      own \in SUBSET (1..NumMerchants) }

Ledgers == GeneralLedgers \cup RecurringLedgers \cup MerchantLedgers

DateChoices == {Jan31, Feb01}

(***************************************************************************)
(* Ordering of group keys: groupby sorts its keys, strings by code point.  *)
(***************************************************************************)
Lexicon == <<"Amazon", "BigBasket", "Bills", "Coffee Shop", "Flipkart",
             "Food", "Friday", "Grocer", "Landlord", "Monday", "Myntra",
             "Ola", "Saturday", "Sunday", "Swiggy", "Thursday", "Tuesday",
             "Uber", "Wednesday", "Zomato">>

StrRank(s) == CHOOSE i \in DOMAIN Lexicon : Lexicon[i] = s

\* The rank of each key of S: numbers by value, strings by code point.
KeyRank(S, numeric) == [k \in S |-> IF numeric THEN k ELSE StrRank(k)]

\* The keys of S in ascending order.
SortedKeys(S, numeric) ==
    LET rank == KeyRank(S, numeric)
    IN  [i \in 1..Cardinality(S) |->
            CHOOSE k \in S : Cardinality({j \in S : rank[j] < rank[k]}) = i - 1]

(***************************************************************************)
(* Series.sum(): NaN amounts are skipped, an empty sum is 0.               *)
(***************************************************************************)
RECURSIVE SumAmount(_)
SumAmount(rows) ==
    IF rows = <<>> THEN 0
    ELSE (IF Head(rows).Amount.nan THEN 0 ELSE Head(rows).Amount.val)
         + SumAmount(Tail(rows))

\* rows[mask]: the rows whose entry in the boolean mask is True, in order.
RECURSIVE RowsWhere(_, _)
RowsWhere(rows, mask) ==
    IF rows = <<>> THEN <<>>
    ELSE (IF mask[1] THEN <<Head(rows)>> ELSE <<>>)
         \o RowsWhere(Tail(rows), [i \in 1..(Len(rows) - 1) |-> mask[i + 1]])

\* df.groupby(col)["Amount"].sum(): one entry per key present, in
\* ascending key order.
GroupSum(rows, col, numeric) ==
    LET keys == SortedKeys({rows[i][col] : i \in DOMAIN rows}, numeric)
    IN  [n \in DOMAIN keys |->
            [key   |-> keys[n],
             total |-> SumAmount(RowsWhere(rows,
                          [i \in DOMAIN rows |-> rows[i][col] = keys[n]]))]]

\* Variant: ascending by value.
SortValuesAsc(s) ==
    LET Before(i, j) == \/ s[i].total < s[j].total
                        \/ s[i].total = s[j].total /\ i < j
        Pos(i) == Cardinality({j \in DOMAIN s : Before(j, i)}) + 1
    IN  [p \in DOMAIN s |-> s[CHOOSE i \in DOMAIN s : Pos(i) = p]]

\* Series.sort_values(ascending=False): descending by value, equal values
\* keeping their order.
SortValuesDesc(s) ==
    LET Before(i, j) == \/ s[i].total > s[j].total
                        \/ s[i].total = s[j].total /\ i < j
        Pos(i) == Cardinality({j \in DOMAIN s : Before(j, i)}) + 1
    IN  [p \in DOMAIN s |-> s[CHOOSE i \in DOMAIN s : Pos(i) = p]]

\* Series.head(n)
HeadN(s, n) == SubSeq(s, 1, IF Len(s) < n THEN Len(s) ELSE n)

(***************************************************************************)
(* The filter, lines 20-26.                                                *)
(***************************************************************************)
\* Variant: the end date is excluded.
DateFilterExclusive(rows, s, e) ==
    RowsWhere(rows, [i \in DOMAIN rows |->
                        /\ DateLE(s, rows[i].Date)
                        /\ DateLE(rows[i].Date, e)
                        /\ rows[i].Date # e])

DateFilter(rows, s, e) ==
    RowsWhere(rows, [i \in DOMAIN rows |->
                        DateLE(s, rows[i].Date) /\ DateLE(rows[i].Date, e)])

Unique(rows) == {rows[i].Category : i \in DOMAIN rows}

\* Variant: an empty selection is taken to mean every category.
CategoryFilterEmptyMeansAll(rows, sel) ==
    RowsWhere(rows, [i \in DOMAIN rows |-> sel = {} \/ rows[i].Category \in sel])

\* Series.isin(sel)
CategoryFilter(rows, sel) ==
    RowsWhere(rows, [i \in DOMAIN rows |-> rows[i].Category \in sel])

\* df['Date'].min() and .max(), the defaults of the two date inputs.
MinDate(rows) ==
    CHOOSE x \in {rows[i].Date : i \in DOMAIN rows} :
        \A i \in DOMAIN rows : DateLE(x, rows[i].Date)

MaxDate(rows) ==
    CHOOSE x \in {rows[i].Date : i \in DOMAIN rows} :
        \A i \in DOMAIN rows : DateLE(rows[i].Date, x)

(***************************************************************************)
(* The summaries, lines 28-36.                                             *)
(***************************************************************************)
\* Variant: the totals are taken over the whole ledger.
CategorySummaryUnfiltered(rows) ==
    SortValuesDesc(GroupSum(df, "Category", FALSE))

CategorySummary(rows) == SortValuesDesc(GroupSum(rows, "Category", FALSE))

DaySummary(rows) == SortValuesDesc(GroupSum(rows, "DayOfWeek", FALSE))

HourSummary(rows) == SortValuesDesc(GroupSum(rows, "Hour", TRUE))

\* Variant: the merchants are ranked from the smallest total.
TopMerchantsAscending(rows) ==
    HeadN(SortValuesAsc(GroupSum(rows, "Receiver", FALSE)), TopN)

TopMerchants(rows) ==
    HeadN(SortValuesDesc(GroupSum(rows, "Receiver", FALSE)), TopN)

\* df_filtered[df_filtered['Amount'] < 500]: a comparison with NaN is False.
SmallTransactions(rows) ==
    RowsWhere(rows, [i \in DOMAIN rows |->
                        ~rows[i].Amount.nan /\ rows[i].Amount.val < SmallAmount])

\* groupby(['Receiver', 'Month']).size()
Recurring(rows) ==
    [k \in {<<rows[i].Receiver, rows[i].Month>> : i \in DOMAIN rows} |->
        Cardinality({i \in DOMAIN rows :
                        <<rows[i].Receiver, rows[i].Month>> = k})]

\* Variant: the recurrence limit itself already flags the pair.
WastefulSmallAtLeast(rows) ==
    LET recurring == Recurring(SmallTransactions(rows))
    IN  [k \in {x \in DOMAIN recurring : recurring[x] >= RecurrenceLimit} |->
            recurring[k]]

\* recurring[recurring > 3]
WastefulSmall(rows) ==
    LET recurring == Recurring(SmallTransactions(rows))
    IN  [k \in {x \in DOMAIN recurring : recurring[x] > RecurrenceLimit} |->
            recurring[k]]

\* Variant: only small transactions are inspected for their status.
WastefulStatusSmallOnly(rows) ==
    LET small == SmallTransactions(rows)
    IN  RowsWhere(small, [i \in DOMAIN small |->
                             small[i].Status \in {"PENDING", "FAILED"}])

WastefulStatus(rows) ==
    RowsWhere(rows, [i \in DOMAIN rows |->
                        rows[i].Status \in {"PENDING", "FAILED"}])

(***************************************************************************)
(* The views, lines 56-108.  A figure is the set of plots drawn on it;     *)
(* a view appends its figures to figs and its elements to the page.        *)
(***************************************************************************)
Plot(kind, data) == [kind |-> kind, data |-> data]

Shown(kind, what) == [kind |-> kind, what |-> what]

Canvas(f, p) == [figs |-> f, page |-> p]

DisplayCategorySpending(c, summary) ==
    LET n == Len(c.figs)
    IN  Canvas(c.figs \o << {Plot("bar", summary)}, {Plot("pie", summary)} >>,
               c.page \o << Shown("header", "Category-wise Spending"),
                            Shown("pyplot", n + 1),
                            Shown("subheader", "Category Distribution (Pie Chart)"),
                            Shown("pyplot", n + 2) >>)

DisplayDayHourAnalysis(c, days, hours) ==
    LET n == Len(c.figs)
    IN  Canvas(c.figs \o << {Plot("bar", days)}, {Plot("bar", hours)} >>,
               c.page \o << Shown("header", "Spending by Day"),
                            Shown("pyplot", n + 1),
                            Shown("header", "Spending by Hour"),
                            Shown("pyplot", n + 2) >>)

\* PeriodIndex.to_timestamp(): the first day of the month.
ToTimestamp(period) == D(1970 + period \div 12, (period % 12) + 1, 1)

\* Variant: the months are ranked by total like the other summaries.
MonthlyTrendByValue(rows) ==
    LET g == SortValuesDesc(GroupSum(rows, "Month", TRUE))
    IN  [i \in DOMAIN g |-> [key |-> ToTimestamp(g[i].key), total |-> g[i].total]]

MonthlyTrend(rows) ==
    LET g == GroupSum(rows, "Month", TRUE)
    IN  [i \in DOMAIN g |-> [key |-> ToTimestamp(g[i].key), total |-> g[i].total]]

DisplayMonthlyTrend(c, rows) ==
    LET n == Len(c.figs)
    IN  Canvas(c.figs \o << {Plot("line", MonthlyTrend(rows))} >>,
               c.page \o << Shown("header", "Monthly Spending Trend"),
                            Shown("pyplot", n + 1) >>)

\* wasteful_status[['Date','Receiver','Amount','Status']]
Project(rows) ==
    [i \in DOMAIN rows |->
        [Date |-> rows[i].Date, Receiver |-> rows[i].Receiver,
         Amount |-> rows[i].Amount, Status |-> rows[i].Status]]

(***************************************************************************)
(* The state after lines 9-14: the ledger is loaded, nothing is selected   *)
(* yet and the date inputs hold their defaults.                            *)
(***************************************************************************)
Init ==
    /\ df \in {LoadCsv(l) : l \in Ledgers}
    /\ pc = "date_input"
    /\ start_date = MinDate(df)
    /\ end_date = MaxDate(df)
    /\ categories = {}
    /\ selected_categories = {}
    /\ df_filtered = <<>>
    /\ category_summary = <<>>
    /\ day_summary = <<>>
    /\ hour_summary = <<>>
    /\ top_merchants = <<>>
    /\ wasteful_small = <<>>
    /\ wasteful_status = <<>>
    /\ response = [raised |-> FALSE, text |-> ""]
    /\ advice_text = Unbound
    /\ selection = ""
    /\ monthly_trend = <<>>
    /\ figs = <<>>
    /\ page = <<>>
    /\ charts_pdf = <<>>
    /\ advice_pdf = <<>>

\* Lines 20-24: the two date inputs, the date filter and the options of
\* the category multiselect.
SelectDateRange ==
    /\ pc = "date_input"
    /\ \E s \in DateChoices \cup {start_date}, e \in DateChoices \cup {end_date} :
          /\ start_date' = s
          /\ end_date' = e
          /\ df_filtered' = DateFilter(df, s, e)
    /\ categories' = Unique(df_filtered')
    /\ pc' = "multiselect"
    /\ UNCHANGED <<df, selected_categories, category_summary, day_summary,
                   hour_summary, top_merchants, wasteful_small,
                   wasteful_status, response, advice_text, selection,
                   monthly_trend, figs, page, charts_pdf, advice_pdf>>

\* Lines 25-26: the multiselect offers the categories present and the
\* selection filters the rows.
SelectCategories ==
    /\ pc = "multiselect"
    /\ \E sel \in SUBSET categories :
          /\ selected_categories' = sel
          /\ df_filtered' = CategoryFilter(df_filtered, sel)
    /\ pc' = "aggregate"
    /\ UNCHANGED <<df, start_date, end_date, categories, category_summary,
                   day_summary, hour_summary, top_merchants, wasteful_small,
                   wasteful_status, response, advice_text, selection,
                   monthly_trend, figs, page, charts_pdf, advice_pdf>>

\* Lines 28-36.
Aggregate ==
    /\ pc = "aggregate"
    /\ category_summary' = CategorySummary(df_filtered)
    /\ day_summary' = DaySummary(df_filtered)
    /\ hour_summary' = HourSummary(df_filtered)
    /\ top_merchants' = TopMerchants(df_filtered)
    /\ wasteful_small' = WastefulSmall(df_filtered)
    /\ wasteful_status' = WastefulStatus(df_filtered)
    /\ pc' = "advise"
    /\ UNCHANGED <<df, start_date, end_date, categories, selected_categories,
                   df_filtered, response, advice_text, selection,
                   monthly_trend, figs, page, charts_pdf, advice_pdf>>

\* Lines 53-54: generate_content either raises, which ends the run, or
\* returns a response whose text may be empty.
AdviceTexts == {"", "Cut down on small coffee payments."}

AdviceOf(resp) == IF resp.text # "" THEN resp.text ELSE Fallback

Advise ==
    /\ pc = "advise"
    /\ \/ /\ response' = [raised |-> TRUE, text |-> ""]
          /\ pc' = "crashed"
          /\ UNCHANGED advice_text
       \/ \E t \in AdviceTexts :
             /\ response' = [raised |-> FALSE, text |-> t]
             /\ advice_text' = AdviceOf(response')
             /\ pc' = "dispatch"
    /\ UNCHANGED <<df, start_date, end_date, categories, selected_categories,
                   df_filtered, category_summary, day_summary, hour_summary,
                   top_merchants, wasteful_small, wasteful_status, selection,
                   monthly_trend, figs, page, charts_pdf, advice_pdf>>

(***************************************************************************)
(* The dispatch of the selected view, lines 143-158.                       *)
(***************************************************************************)
Render(choice, c) ==
    /\ pc = "dispatch"
    /\ selection' = choice
    /\ figs' = c.figs
    /\ page' = c.page
    /\ pc' = "done"
    /\ UNCHANGED <<df, start_date, end_date, categories, selected_categories,
                   df_filtered, category_summary, day_summary, hour_summary,
                   top_merchants, wasteful_small, wasteful_status, response,
                   advice_text>>

Blank == Canvas(figs, page)

ViewCategorySpending ==
    /\ Render("Category Spending", DisplayCategorySpending(Blank, category_summary))
    /\ UNCHANGED <<monthly_trend, charts_pdf, advice_pdf>>

ViewDayHourAnalysis ==
    /\ Render("Day & Hour Analysis",
              DisplayDayHourAnalysis(Blank, day_summary, hour_summary))
    /\ UNCHANGED <<monthly_trend, charts_pdf, advice_pdf>>

ViewTopMerchants ==
    /\ Render("Top Merchants",
              Canvas(figs, page \o << Shown("header", "Top 5 Merchants"),
                                      Shown("table", top_merchants) >>))
    /\ UNCHANGED <<monthly_trend, charts_pdf, advice_pdf>>

ViewMonthlyTrend ==
    /\ Render("Monthly Trend", DisplayMonthlyTrend(Blank, df_filtered))
    /\ monthly_trend' = MonthlyTrend(df_filtered)
    /\ UNCHANGED <<charts_pdf, advice_pdf>>

ViewWastefulTransactions ==
    /\ Render("Wasteful Transactions",
              Canvas(figs,
                     page \o << Shown("header", "Potential Wasteful Transactions"),
                                IF DOMAIN wasteful_small # {}
                                THEN Shown("write", wasteful_small)
                                ELSE Shown("success", "No repetitive small transactions"),
                                IF wasteful_status # <<>>
                                THEN Shown("dataframe", Project(wasteful_status))
                                ELSE Shown("success", "No pending or failed transactions") >>))
    /\ UNCHANGED <<monthly_trend, charts_pdf, advice_pdf>>

ViewAiAdvice ==
    /\ Render("AI Advice",
              Canvas(figs, page \o << Shown("header", "AI-Powered Financial Advice"),
                                      Shown("info", advice_text) >>))
    /\ UNCHANGED <<monthly_trend, charts_pdf, advice_pdf>>

(***************************************************************************)
(* export_pdf, lines 110-131.  For each plot function the loop opens a     *)
(* figure, calls the function, closes the figure it opened and saves that  *)
(* figure as a page.                                                       *)
(***************************************************************************)
PlotFuncs == <<"display_category_spending", "display_day_hour_analysis",
               "display_monthly_trend">>

CallPlotFunc(name, c) ==
    IF name = "display_category_spending"
    THEN DisplayCategorySpending(c, category_summary)
    ELSE IF name = "display_day_hour_analysis"
    THEN DisplayDayHourAnalysis(c, day_summary, hour_summary)
    ELSE DisplayMonthlyTrend(c, df_filtered)

RECURSIVE ExportLoop(_, _, _)
ExportLoop(funcs, c, pdf) ==
    IF funcs = <<>> THEN [canvas |-> c, pdf |-> pdf]
    ELSE LET fig    == Len(c.figs) + 1
             opened == Canvas(c.figs \o << {} >>, c.page)
             drawn  == CallPlotFunc(Head(funcs), opened)
         IN  ExportLoop(Tail(funcs), drawn,
                        Append(pdf, [func  |-> Head(funcs),
                                     fig   |-> fig,
                                     plots |-> drawn.figs[fig]]))

AdviceDocument(text) == << "AI-Powered Financial Advice:", text >>

ExportReport ==
    /\ \E pressed \in BOOLEAN :
          LET top == Canvas(figs, page \o << Shown("header", "Export Report as PDF") >>)
              out == ExportLoop(PlotFuncs, top, <<>>)
          IN  IF pressed
              THEN /\ Render("Export Report",
                             Canvas(out.canvas.figs,
                                    out.canvas.page \o
                                      << Shown("download_button", "UPI_Charts_Report.pdf"),
                                         Shown("download_button", "UPI_AI_Advice.pdf"),
                                         Shown("success", "PDFs are ready for download!") >>))
                   /\ charts_pdf' = out.pdf
                   /\ advice_pdf' = AdviceDocument(advice_text)
                   /\ monthly_trend' = MonthlyTrend(df_filtered)
              ELSE /\ Render("Export Report", top)
                   /\ UNCHANGED <<monthly_trend, charts_pdf, advice_pdf>>

Next ==
    \/ SelectDateRange
    \/ SelectCategories
    \/ Aggregate
    \/ Advise
    \/ ViewCategorySpending
    \/ ViewDayHourAnalysis
    \/ ViewTopMerchants
    \/ ViewMonthlyTrend
    \/ ViewWastefulTransactions
    \/ ViewAiAdvice
    \/ ExportReport

Spec == Init /\ [][Next]_vars

(***************************************************************************)
(* Properties.                                                             *)
(***************************************************************************)
Filtered == pc \in {"aggregate", "advise", "dispatch", "done", "crashed"}

Aggregated == pc \in {"advise", "dispatch", "done", "crashed"}

TrendDrawn ==
    /\ pc = "done"
    /\ \/ selection = "Monthly Trend"
       \/ selection = "Export Report" /\ charts_pdf # <<>>

\* The rows of a table at the indices in keep, in their original order.
RowsAt(rows, keep) ==
    [n \in 1..Cardinality(keep) |->
        rows[CHOOSE i \in keep : Cardinality({j \in keep : j < i}) = n - 1]]

\* The sum of the amounts of the rows at the indices in S, all known.
RECURSIVE KnownTotal(_, _)
KnownTotal(rows, S) ==
    IF S = {} THEN 0
    ELSE LET i == CHOOSE x \in S : TRUE
         IN  rows[i].Amount.val + KnownTotal(rows, S \ {i})

Known(rows) == {i \in DOMAIN rows : ~rows[i].Amount.nan}

RECURSIVE SumTotals(_)
SumTotals(summary) ==
    IF summary = <<>> THEN 0 ELSE Head(summary).total + SumTotals(Tail(summary))

\* A ranked summary has one entry per key present, each with the sum of
\* the known amounts of its group, and no entry exceeds an earlier one.
RankedByKey(summary, rows, col) ==
    /\ {summary[n].key : n \in DOMAIN summary} = {rows[i][col] : i \in DOMAIN rows}
    /\ Len(summary) = Cardinality({rows[i][col] : i \in DOMAIN rows})
    /\ \A n \in DOMAIN summary :
          summary[n].total =
              KnownTotal(rows, {i \in Known(rows) : rows[i][col] = summary[n].key})
    /\ \A m, n \in DOMAIN summary : m < n => summary[m].total >= summary[n].total

\* C1: the filtered set is exactly the rows with start_date <= Date <=
\* end_date, both bounds inclusive, whose category is selected; with
\* start_date = end_date = d it holds exactly the selected rows dated d.
C1_FilterExact ==
    Filtered =>
        /\ df_filtered =
              RowsAt(df, {i \in DOMAIN df :
                            /\ DateLE(start_date, df[i].Date)
                            /\ DateLE(df[i].Date, end_date)
                            /\ df[i].Category \in selected_categories})
        /\ start_date = end_date =>
              /\ \A n \in DOMAIN df_filtered : df_filtered[n].Date = start_date
              /\ Len(df_filtered) =
                    Cardinality({i \in DOMAIN df :
                                   /\ df[i].Date = start_date
                                   /\ df[i].Category \in selected_categories})

C1_Witness ==
    /\ Filtered
    /\ start_date = end_date
    /\ df_filtered # <<>>
    /\ \E i \in DOMAIN df : /\ df[i].Date # start_date
                            /\ df[i].Category \in selected_categories

\* C2: the values of category_summary add up to the sum of the known
\* amounts of the filtered rows; rows whose amount is missing add nothing
\* and the aggregation still completes.
C2_CategoryTotalsAddUp ==
    Aggregated =>
        SumTotals(category_summary) = KnownTotal(df_filtered, Known(df_filtered))

C2_Witness ==
    /\ Aggregated
    /\ \E i \in DOMAIN df_filtered : df_filtered[i].Amount.nan
    /\ \E i \in DOMAIN df_filtered : ~df_filtered[i].Amount.nan
    /\ Len(df_filtered) < Len(df)
    /\ SumTotals(category_summary) # 0

SmallCount(k) ==
    Cardinality({i \in DOMAIN df_filtered :
                    /\ <<df_filtered[i].Receiver, df_filtered[i].Month>> = k
                    /\ ~df_filtered[i].Amount.nan
                    /\ df_filtered[i].Amount.val < 500})

\* C3: wasteful_small holds a (receiver, month) pair exactly when more
\* than 3 filtered rows with a known amount below 500 share it, and maps
\* the pair to that count; 3 such payments are not flagged, 4 are flagged
\* with count 4, amounts of 500 or more and missing amounts never count.
C3_RecurringOverThree ==
    Aggregated =>
        /\ \A i \in DOMAIN df_filtered :
              LET k == <<df_filtered[i].Receiver, df_filtered[i].Month>>
              IN  k \in DOMAIN wasteful_small <=> SmallCount(k) > 3
        /\ \A k \in DOMAIN wasteful_small :
              /\ wasteful_small[k] = SmallCount(k)
              /\ \E i \in DOMAIN df_filtered :
                    <<df_filtered[i].Receiver, df_filtered[i].Month>> = k

C3_Witness ==
    /\ Aggregated
    /\ \E k \in DOMAIN wasteful_small :
          /\ wasteful_small[k] = 4
          /\ \E i \in DOMAIN df_filtered :
                /\ <<df_filtered[i].Receiver, df_filtered[i].Month>> = k
                /\ df_filtered[i].Amount.nan
          /\ \E i \in DOMAIN df_filtered :
                /\ <<df_filtered[i].Receiver, df_filtered[i].Month>> = k
                /\ ~df_filtered[i].Amount.nan
                /\ df_filtered[i].Amount.val >= 500
    /\ \E i \in DOMAIN df_filtered :
          LET k == <<df_filtered[i].Receiver, df_filtered[i].Month>>
          IN  SmallCount(k) = 3 /\ k \notin DOMAIN wasteful_small

\* C4: wasteful_status is the subsequence of the whole filtered set whose
\* status is PENDING or FAILED, in the original order and whatever the
\* amount, and the wasteful view lists exactly those rows.
C4_StatusListing ==
    Aggregated =>
        /\ wasteful_status =
              RowsAt(df_filtered, {i \in DOMAIN df_filtered :
                                      df_filtered[i].Status = "PENDING"
                                      \/ df_filtered[i].Status = "FAILED"})
        /\ (pc = "done" /\ selection = "Wasteful Transactions"
              /\ wasteful_status # <<>>) =>
              /\ page[Len(page)].kind = "dataframe"
              /\ Len(page[Len(page)].what) = Len(wasteful_status)
              /\ \A n \in DOMAIN wasteful_status :
                    LET shown == page[Len(page)].what[n]
                    IN  /\ shown.Date = wasteful_status[n].Date
                        /\ shown.Receiver = wasteful_status[n].Receiver
                        /\ shown.Amount = wasteful_status[n].Amount
                        /\ shown.Status = wasteful_status[n].Status

C4_Witness ==
    /\ pc = "done"
    /\ selection = "Wasteful Transactions"
    /\ Len(wasteful_status) >= 2
    /\ wasteful_status[1].Status # wasteful_status[2].Status
    /\ \E n \in DOMAIN wasteful_status :
          ~wasteful_status[n].Amount.nan /\ wasteful_status[n].Amount.val >= 500
    /\ \E i \in DOMAIN df_filtered : df_filtered[i].Status = "COMPLETED"

ReceiverTotal(r) ==
    KnownTotal(df_filtered,
               {i \in Known(df_filtered) : df_filtered[i].Receiver = r})

FilteredReceivers == {df_filtered[i].Receiver : i \in DOMAIN df_filtered}

\* C5: top_merchants holds min(5, distinct filtered receivers) entries,
\* each a receiver with the sum of its filtered amounts, in descending
\* order of total, and no receiver left out has a greater total than one
\* included.
C5_TopMerchants ==
    Aggregated =>
        LET chosen == {top_merchants[n].key : n \in DOMAIN top_merchants}
            count  == Cardinality(FilteredReceivers)
        IN  /\ Len(top_merchants) = IF count < 5 THEN count ELSE 5
            /\ Cardinality(chosen) = Len(top_merchants)
            /\ chosen \subseteq FilteredReceivers
            /\ \A n \in DOMAIN top_merchants :
                  top_merchants[n].total = ReceiverTotal(top_merchants[n].key)
            /\ \A m, n \in DOMAIN top_merchants :
                  m < n => top_merchants[m].total >= top_merchants[n].total
            /\ \A out \in FilteredReceivers \ chosen : \A in \in chosen :
                  ReceiverTotal(out) <= ReceiverTotal(in)

C5_Witness ==
    /\ Aggregated
    /\ Cardinality(FilteredReceivers) > 5
    /\ Len(top_merchants) = 5
    /\ top_merchants[1].total > top_merchants[5].total
    /\ \E out \in FilteredReceivers \ {top_merchants[n].key : n \in DOMAIN top_merchants} :
          ReceiverTotal(out) < top_merchants[5].total

\* C6: category_summary, day_summary and hour_summary each have one entry
\* per key present in the filtered set, zero and negative totals included,
\* valued with the sum of the group and ordered by descending total.
C6_RankedSummaries ==
    Aggregated =>
        /\ RankedByKey(category_summary, df_filtered, "Category")
        /\ RankedByKey(day_summary, df_filtered, "DayOfWeek")
        /\ RankedByKey(hour_summary, df_filtered, "Hour")

C6_Witness ==
    /\ Aggregated
    /\ Len(category_summary) >= 2
    /\ Len(day_summary) >= 2
    /\ Len(hour_summary) >= 2
    /\ category_summary[1].total > 0
    /\ category_summary[Len(category_summary)].total < 0
    /\ \E n \in DOMAIN hour_summary : hour_summary[n].total = 0

\* C7: monthly_trend has one pair per month present in the filtered set,
\* with the month's total, in strictly ascending calendar order whatever
\* the totals.
C7_MonthlyTrendChronological ==
    TrendDrawn =>
        /\ Len(monthly_trend) =
              Cardinality({df_filtered[i].Month : i \in DOMAIN df_filtered})
        /\ \A i \in DOMAIN df_filtered : \E n \in DOMAIN monthly_trend :
              /\ monthly_trend[n].key.y = df_filtered[i].Date.y
              /\ monthly_trend[n].key.m = df_filtered[i].Date.m
        /\ \A n \in DOMAIN monthly_trend :
              monthly_trend[n].total =
                  KnownTotal(df_filtered,
                             {i \in Known(df_filtered) :
                                 /\ df_filtered[i].Date.y = monthly_trend[n].key.y
                                 /\ df_filtered[i].Date.m = monthly_trend[n].key.m})
        /\ \A m, n \in DOMAIN monthly_trend :
              m < n => /\ DateLE(monthly_trend[m].key, monthly_trend[n].key)
                       /\ monthly_trend[m].key # monthly_trend[n].key

C7_Witness ==
    /\ TrendDrawn
    /\ Len(monthly_trend) = 2
    /\ monthly_trend[2].total < monthly_trend[1].total

\* C8: with start_date > end_date, or with no category selected, the
\* aggregation completes and every summary it produces is empty.
C8_EmptyBundle ==
    (Aggregated /\ (~DateLE(start_date, end_date) \/ selected_categories = {})) =>
        /\ category_summary = <<>>
        /\ day_summary = <<>>
        /\ hour_summary = <<>>
        /\ top_merchants = <<>>
        /\ DOMAIN wasteful_small = {}
        /\ wasteful_status = <<>>
        /\ monthly_trend = <<>>
        /\ TrendDrawn => \A f \in DOMAIN figs :
                             \A plot \in figs[f] : plot.data = <<>>

C8_Witness ==
    /\ TrendDrawn
    /\ selected_categories = {}
    /\ categories # {}
    /\ DateLE(start_date, end_date)

\* C9: whenever the advisory call raises, times out or returns an empty
\* response, advice_text is the fallback "No advice generated." and the
\* run reaches the dispatch of the selected view.
C9_AdvisoryFailureFallsBack ==
    (pc \in {"dispatch", "done", "crashed"}
        /\ (response.raised \/ response.text = "")) =>
        /\ advice_text = "No advice generated."
        /\ pc \in {"dispatch", "done"}

\* C10: when the export is triggered, every page saved to the charts PDF
\* is a figure its plot function drew on, and the second document holds
\* the advisory text.
C10_ExportHoldsCharts ==
    (pc = "done" /\ selection = "Export Report" /\ charts_pdf # <<>>) =>
        /\ Len(charts_pdf) = Len(PlotFuncs)
        /\ \A n \in DOMAIN charts_pdf : charts_pdf[n].plots # {}
        /\ advice_pdf[Len(advice_pdf)] = advice_text

====
